---------------------------- MODULE Spec2Model ----------------------------
(***************************************************************************)
(* Model of the parade-contingents programs:                               *)
(*   src/solve_parade.py   allocate_contingents (chunker, ILP, extractor)  *)
(*   src/draw_formation.py create_contingent_ascii, create_parade_formation*)
(*                         and the position remapping of main              *)
(*                                                                         *)
(* Text is a sequence of one-character strings; a dict is the sequence of  *)
(* its <<key, value>> items in insertion order.                            *)
(***************************************************************************)
EXTENDS Integers, Sequences, FiniteSets, TLC

VARIABLES
    pc,                         \* position of the call being modelled
    group_sizes,                \* allocate_contingents argument (ordered dict)
    capacity,                   \* argument of allocate_contingents / create_parade_formation
    strict_min_capacity,        \* allocate_contingents argument
    contingent_row_size,        \* row_size / contingent_row_size argument
    fix_num_contingents,        \* allocate_contingents argument (None or an int)
    pre_allocated_contingents,  \* solve_parade.py:118
    remaining_group_sizes,      \* solve_parade.py:119
    g_index,                    \* position of the item (g, info) of line 121
    group_count_now,            \* group_count of lines 122-134
    all_contingents,            \* returned allocation (solve_parade.py:154, 317)
    raised,                     \* exception that ended the call, or None
    total_people,               \* create_contingent_ascii argument
    ascii,                      \* text returned by create_contingent_ascii
    contingents,                \* list of contingents read by draw_formation
    positions_map,              \* draw_formation.py:185
    reordered_contingents,      \* draw_formation.py:194
    formation                   \* text returned by create_parade_formation

vars == <<pc, group_sizes, capacity, strict_min_capacity, contingent_row_size,
          fix_num_contingents, pre_allocated_contingents, remaining_group_sizes,
          g_index, group_count_now, all_contingents, raised, total_people, ascii, contingents,
          positions_map, reordered_contingents, formation>>

allocVars == <<group_sizes, strict_min_capacity, fix_num_contingents,
               pre_allocated_contingents, remaining_group_sizes, g_index,
               group_count_now,
               all_contingents>>
drawVars  == <<contingents, positions_map, reordered_contingents, formation>>
gridVars  == <<total_people, ascii>>

None == "None"

\* fix_num_contingents is <<>> for None and <<k>> for the int k
NoFix == <<>>

-----------------------------------------------------------------------------
(* Bounds of the model *)

MaxPeople == 12         \* head-counts given to create_contingent_ascii
MaxRows == 5            \* row sizes given to create_contingent_ascii
MaxCount == 3           \* head-count of one group in a drawn contingent
MaxContingents == 3     \* contingents given to create_parade_formation
MaxFormationRows == 2   \* row sizes given to create_parade_formation
MaxFormationCapacity == 3   \* capacities given to create_parade_formation
MaxDrawn == 3           \* contingents read by main of draw_formation
MaxMapEntries == 2      \* entries of positions_map
MaxSize == 5            \* size of one group
MaxTotal == 5           \* people in all groups together
MaxCapacity == 3        \* capacity of a contingent
MaxRowSize == 2         \* contingent_row_size of an allocation
MaxFix == 5             \* fix_num_contingents

-----------------------------------------------------------------------------
(* Python built-ins used by the programs *)

Max(a, b) == IF a >= b THEN a ELSE b
Abs(a) == IF a < 0 THEN 0 - a ELSE a

\* math.ceil(a / b) for a >= 0, b > 0
Ceil(a, b) == (a + b - 1) \div b

RECURSIVE SumSeq(_)
SumSeq(s) == IF s = <<>> THEN 0 ELSE Head(s) + SumSeq(Tail(s))

\* sep.join(parts): parts is a sequence of texts
RECURSIVE Join(_, _)
Join(sep, parts) ==
    IF parts = <<>> THEN <<>>
    ELSE IF Len(parts) = 1 THEN parts[1]
    ELSE parts[1] \o sep \o Join(sep, Tail(parts))

\* text.split(ch): the pieces between occurrences of the character ch
RECURSIVE SplitFrom(_, _, _)
SplitFrom(text, ch, cur) ==
    IF text = <<>> THEN <<cur>>
    ELSE IF Head(text) = ch THEN <<cur>> \o SplitFrom(Tail(text), ch, <<>>)
    ELSE SplitFrom(Tail(text), ch, Append(cur, Head(text)))

Split(text, ch) == SplitFrom(text, ch, <<>>)

NL == "\n"

\* number of occurrences of the character ch in text
RECURSIVE CountChar(_, _)
CountChar(text, ch) ==
    IF text = <<>> THEN 0
    ELSE (IF Head(text) = ch THEN 1 ELSE 0) + CountChar(Tail(text), ch)

-----------------------------------------------------------------------------
(* draw_formation.py: create_contingent_ascii *)

\* inner for loop (lines 19-24): rows from the bottom up in one column;
\* st = [seats, seats_removed]; seats[row][col] with 0-based row, col
RECURSIVE RemoveInColumn(_, _, _, _)
RemoveInColumn(st, row, col, missing) ==
    IF row < 0 THEN st
    ELSE IF st.seats_removed >= missing THEN st
    ELSE RemoveInColumn(
            [seats |-> [st.seats EXCEPT ![row][col] = FALSE],
             seats_removed |-> st.seats_removed + 1],
            row - 1, col, missing)

\* outer while loop (lines 17-25)
RECURSIVE RemoveSeats(_, _, _, _, _)
RemoveSeats(st, col_to_remove, missing, columns, rows) ==
    IF st.seats_removed < missing /\ col_to_remove < columns
    THEN RemoveSeats(RemoveInColumn(st, rows - 1, col_to_remove, missing),
                     col_to_remove + 1, missing, columns, rows)
    ELSE st

\* the seat matrix built by lines 6-25
SeatGrid(people, rows) ==
    LET columns == Ceil(people, rows)
        total_grid_size == rows * columns
        missing == total_grid_size - people
        full == [row \in 0..(rows - 1) |-> [col \in 0..(columns - 1) |-> TRUE]]
    IN  IF missing > 0
        THEN RemoveSeats([seats |-> full, seats_removed |-> 0], 1, missing,
                         columns, rows).seats
        ELSE full

\* lines 27-38: one text line per row, seats joined by a space, rows by "\n"
create_contingent_ascii(people, rows) ==
    LET columns == Ceil(people, rows)
        seats == SeatGrid(people, rows)
        row_str(row) == [k \in 1..columns |->
                            <<IF seats[row][k - 1] THEN "x" ELSE " ">>]
        result == [r \in 1..rows |-> Join(<<" ">>, row_str(r - 1))]
    IN  Join(<<NL>>, result)

-----------------------------------------------------------------------------
(* Specification of create_contingent_ascii on its own *)

InitGrid ==
    /\ pc = "ascii_call"
    /\ total_people \in 0..MaxPeople
    /\ contingent_row_size \in 1..MaxRows
    /\ ascii = None
    /\ capacity = None /\ raised = None
    /\ group_sizes = None /\ strict_min_capacity = None
    /\ fix_num_contingents = None /\ pre_allocated_contingents = None
    /\ remaining_group_sizes = None /\ all_contingents = None
    /\ g_index = None /\ group_count_now = None
    /\ contingents = None /\ positions_map = None
    /\ reordered_contingents = None /\ formation = None

CallAscii ==
    /\ pc = "ascii_call"
    /\ ascii' = create_contingent_ascii(total_people, contingent_row_size)
    /\ pc' = "ascii_done"
    /\ UNCHANGED <<total_people, contingent_row_size, capacity, raised>>
    /\ UNCHANGED allocVars
    /\ UNCHANGED drawVars

NextGrid == CallAscii

SpecGrid == InitGrid /\ [][NextGrid]_vars

GridLines == Split(ascii, NL)
GridColumns == Ceil(total_people, contingent_row_size)

\* C4: the text returned for (count, rows) has rows lines, each showing
\* ceil(count/rows) seats (seats separated by one space), and exactly count
\* of the seats are occupied ('x').
C4_GridHoldsCount ==
    pc = "ascii_done" =>
        /\ Len(GridLines) = contingent_row_size
        /\ \A r \in 1..Len(GridLines) :
              Len(GridLines[r]) = Max(0, 2 * GridColumns - 1)
        /\ CountChar(ascii, "x") = total_people

-----------------------------------------------------------------------------
(* draw_formation.py: create_parade_formation *)

FORMATION_WIDTH == 50     \* rjust(50) and " " * 50, lines 70-72 and 84-86

Digits == <<"0", "1", "2", "3", "4", "5", "6", "7", "8", "9">>

\* str(n) of an int n >= 0, as f-strings format it
RECURSIVE Str(_)
Str(n) == IF n < 10 THEN <<Digits[n + 1]>>
          ELSE Str(n \div 10) \o <<Digits[(n % 10) + 1]>>

\* sum(cont.values())
RECURSIVE DictTotal(_)
DictTotal(cont) ==
    IF cont = <<>> THEN 0 ELSE Head(cont)[2] + DictTotal(Tail(cont))

\* line.rjust(width): spaces on the left, nothing when already wide enough
RJust(line, width) ==
    IF Len(line) >= width THEN line
    ELSE [k \in 1..(width - Len(line)) |-> " "] \o line

\* line.lstrip(): leading whitespace removed
RECURSIVE LStrip(_)
LStrip(line) ==
    IF line = <<>> THEN <<>>
    ELSE IF Head(line) \in {" ", NL} THEN LStrip(Tail(line))
    ELSE line

\* max(len(x) for x in lines); the caller guards the empty case (ValueError)
RECURSIVE MaxLen(_)
MaxLen(lines) ==
    IF Len(lines) = 1 THEN Len(lines[1])
    ELSE Max(Len(lines[1]), MaxLen(Tail(lines)))

\* line 48-49: f"C{idx} ({composition})", composition = ", ".join(f"{n} {g}")
Header(idx, cont) ==
    LET composition ==
            Join(<<",", " ">>,
                 [k \in 1..Len(cont) |-> Str(cont[k][2]) \o <<" ">> \o <<cont[k][1]>>])
    IN  <<"C">> \o Str(idx) \o <<" ", "(">> \o composition \o <<")">>

\* lines 42-51: the tuple (capacity_diff, idx, display) of contingent idx
Display(idx, cont, rows, cap) ==
    LET total_in_cont == DictTotal(cont)
    IN  [capacity_diff |-> Abs(cap - total_in_cont),
         idx |-> idx,
         text |-> Header(idx, cont) \o <<NL>>
                    \o create_contingent_ascii(total_in_cont, rows)]

\* list.sort(key=lambda x: x[0]) (line 53): stable, ascending capacity_diff
RECURSIVE InsertByDiff(_, _)
InsertByDiff(sorted, d) ==
    IF sorted = <<>> THEN <<d>>
    ELSE IF d.capacity_diff < Head(sorted).capacity_diff THEN <<d>> \o sorted
    ELSE <<Head(sorted)>> \o InsertByDiff(Tail(sorted), d)

RECURSIVE SortByDiff(_)
SortByDiff(displays) ==
    IF displays = <<>> THEN <<>>
    ELSE InsertByDiff(SortByDiff(SubSeq(displays, 1, Len(displays) - 1)),
                      displays[Len(displays)])

\* lines 66-75 and 80-89: the side-by-side lines of one display row
RowBlock(row_lines) ==
    [line_idx \in 1..MaxLen(row_lines) |->
        LStrip(Join(<<>>,
            [f \in 1..Len(row_lines) |->
                IF line_idx <= Len(row_lines[f])
                THEN RJust(row_lines[f][line_idx], FORMATION_WIDTH)
                ELSE [k \in 1..FORMATION_WIDTH |-> " "]]))]

\* the whole function; result is [raised, text]
create_parade_formation(conts, rows, cap) ==
    IF \E k \in 1..Len(conts) : conts[k] = None
    THEN [raised |-> "AttributeError", text |-> None]       \* None.values(), line 43
    ELSE
    LET contingent_displays == [k \in 1..Len(conts) |-> Display(k, conts[k], rows, cap)]
        sorted == SortByDiff(contingent_displays)
        sorted_displays == [k \in 1..Len(sorted) |-> sorted[k].text]
        first_row_count == (Len(conts) + 1) \div 2
        first_row == SubSeq(sorted_displays, 1, first_row_count)
        second_row == SubSeq(sorted_displays, first_row_count + 1, Len(sorted_displays))
        first_row_lines == [k \in 1..Len(first_row) |-> Split(first_row[k], NL)]
        second_row_lines == [k \in 1..Len(second_row) |-> Split(second_row[k], NL)]
    IN  IF first_row_lines = <<>>
        THEN [raised |-> "ValueError", text |-> None]       \* max() of nothing, line 66
        ELSE IF second_row_lines = <<>>
        THEN [raised |-> "ValueError", text |-> None]       \* max() of nothing, line 80
        ELSE [raised |-> None,
              text |-> Join(<<NL>>, RowBlock(first_row_lines) \o << <<>> >>
                                      \o RowBlock(second_row_lines))]

-----------------------------------------------------------------------------
(* Specification of create_parade_formation on its own *)

\* contingents given to the composer: one group, or two groups
ContingentChoices ==
    { << <<"A", n>> >> : n \in 1..MaxCount }
        \cup { << <<"B", n>>, <<"A", 1>> >> : n \in 1..MaxCount }

RECURSIVE SeqsUpTo(_, _)
SeqsUpTo(S, n) ==
    IF n = 0 THEN { <<>> }
    ELSE LET shorter == SeqsUpTo(S, n - 1)
         IN  shorter \cup { Append(s, e) : s \in { t \in shorter : Len(t) = n - 1 }, e \in S }

InitFormation ==
    /\ pc = "formation_call"
    /\ contingents \in SeqsUpTo(ContingentChoices, MaxContingents)
    /\ contingent_row_size \in 1..MaxFormationRows
    /\ capacity \in 1..MaxFormationCapacity
    /\ formation = None /\ raised = None
    /\ total_people = None /\ ascii = None
    /\ group_sizes = None /\ strict_min_capacity = None
    /\ fix_num_contingents = None /\ pre_allocated_contingents = None
    /\ remaining_group_sizes = None /\ all_contingents = None
    /\ g_index = None /\ group_count_now = None
    /\ positions_map = None /\ reordered_contingents = None

CallFormation ==
    /\ pc = "formation_call"
    /\ LET r == create_parade_formation(contingents, contingent_row_size, capacity)
       IN  /\ formation' = r.text
           /\ raised' = r.raised
    /\ pc' = "formation_done"
    /\ UNCHANGED <<contingents, positions_map, reordered_contingents>>
    /\ UNCHANGED <<contingent_row_size, capacity>>
    /\ UNCHANGED allocVars
    /\ UNCHANGED gridVars

NextFormation == CallFormation

SpecFormation == InitFormation /\ [][NextFormation]_vars

\* C10: called with an empty sequence of contingents, create_parade_formation
\* returns an empty text block and raises nothing.
C10_EmptyGivesEmptyBlock ==
    (pc = "formation_done" /\ contingents = <<>>) =>
        (raised = None /\ formation = <<>>)

\* the ordinals 1..n in the order the composer must draw them: ascending
\* |capacity - total|, equal diffs in ascending original ordinal
DiffOf(k) == Abs(capacity - DictTotal(contingents[k]))

IsDiffOrder(p) ==
    /\ \A k \in 1..Len(contingents) : \E i \in 1..Len(contingents) : p[i] = k
    /\ \A i, j \in 1..Len(contingents) :
          i < j => \/ DiffOf(p[i]) < DiffOf(p[j])
                   \/ (DiffOf(p[i]) = DiffOf(p[j]) /\ p[i] < p[j])

\* the header and grid lines of the diagram of ordinal k
DiagramLines(k) ==
    Split(Header(k, contingents[k]) \o <<NL>>
              \o create_contingent_ascii(DictTotal(contingents[k]),
                                         contingent_row_size), NL)

\* the side-by-side lines of some diagrams: every diagram blank-filled to the
\* tallest, right-justified to the column width, leading blanks stripped;
\* no diagram gives no line
SideBySide(ds) ==
    IF ds = <<>> THEN <<>>
    ELSE LET height == CHOOSE h \in { Len(ds[f]) : f \in 1..Len(ds) } :
                           \A f \in 1..Len(ds) : Len(ds[f]) <= h
         IN  [l \in 1..height |->
                LStrip(Join(<<>>,
                    [f \in 1..Len(ds) |->
                        RJust(IF l <= Len(ds[f]) THEN ds[f][l] ELSE <<>>,
                              FORMATION_WIDTH)]))]

\* the block of the order p: first ceil(n/2) diagrams, a blank line, the rest
TwoRowBlock(p) ==
    LET n == Len(contingents)
        half == Ceil(n, 2)
        first == [i \in 1..half |-> DiagramLines(p[i])]
        rest == [i \in 1..(n - half) |-> DiagramLines(p[half + i])]
    IN  Join(<<NL>>, SideBySide(first) \o << <<>> >> \o SideBySide(rest))

\* C11: for every sequence of n >= 1 contingents create_parade_formation
\* returns the side-by-side block of the first ceil(n/2) diagrams of the
\* diff-sorted sequence (stable: ties in original ordinal order), one blank
\* separator line, then the side-by-side block of the remaining diagrams,
\* which is empty when n = 1.
C11_TwoRowBlock ==
    (pc = "formation_done" /\ Len(contingents) >= 1) =>
        /\ raised = None
        /\ \E p \in [1..Len(contingents) -> 1..Len(contingents)] :
              IsDiffOrder(p) /\ formation = TwoRowBlock(p)

\* the same for two contingents or more, where the second row is not empty
C11_FromTwoOn ==
    (pc = "formation_done" /\ Len(contingents) >= 2) =>
        /\ raised = None
        /\ \E p \in [1..Len(contingents) -> 1..Len(contingents)] :
              IsDiffOrder(p) /\ formation = TwoRowBlock(p)

-----------------------------------------------------------------------------
(* draw_formation.py: main, the position remapping and the drawing *)

DEFAULT_ROW_SIZE == 5     \* draw_formation.py:129
DEFAULT_CAPACITY == 90    \* draw_formation.py:131

\* list[index] = value with Python's index rules on a list of length n:
\* -n..-1 count from the end, anything else outside 0..n-1 is an IndexError
SetItem(list, index, value) ==
    LET n == Len(list)
    IN  IF index >= 0 /\ index < n
        THEN [raised |-> None, list |-> [list EXCEPT ![index + 1] = value]]
        ELSE IF index < 0 /\ index + n >= 0
        THEN [raised |-> None, list |-> [list EXCEPT ![index + n + 1] = value]]
        ELSE [raised |-> "IndexError", list |-> list]

\* lines 197-201: place contingent i (0-based) and the ones after it
RECURSIVE PlaceMapped(_, _, _, _)
PlaceMapped(reordered, i, conts, pmap) ==
    IF i >= Len(conts) THEN [raised |-> None, list |-> reordered]
    ELSE LET old_pos == i + 1
         IN  IF old_pos \in DOMAIN pmap
             THEN LET new_pos_index == pmap[old_pos] - 1
                      r == SetItem(reordered, new_pos_index, conts[i + 1])
                  IN  IF r.raised # None THEN r
                      ELSE PlaceMapped(r.list, i + 1, conts, pmap)
             ELSE PlaceMapped(reordered, i + 1, conts, pmap)

\* FillSlot without the test of line 210: mapped contingents are used again
FillSlotNoSkip(st, i, conts, pmap) ==
    IF st.fill_index < Len(conts)
    THEN [list |-> [st.list EXCEPT ![i + 1] = conts[st.fill_index + 1]],
          fill_index |-> st.fill_index + 1]
    ELSE st

\* lines 208-214: the while loop; st = [list, fill_index]
RECURSIVE FillSlot(_, _, _, _)
FillSlot(st, i, conts, pmap) ==
    IF st.fill_index < Len(conts)
    THEN LET old_pos == st.fill_index + 1
         IN  IF old_pos \notin DOMAIN pmap
             THEN [list |-> [st.list EXCEPT ![i + 1] = conts[st.fill_index + 1]],
                   fill_index |-> st.fill_index + 1]
             ELSE FillSlot([st EXCEPT !.fill_index = st.fill_index + 1], i, conts, pmap)
    ELSE st

\* lines 204-214: the for loop over the slots, from slot i (0-based) on
RECURSIVE FillGaps(_, _, _, _)
FillGaps(st, i, conts, pmap) ==
    IF i >= Len(conts) THEN st
    ELSE IF st.list[i + 1] = None
         THEN FillGaps(FillSlot(st, i, conts, pmap), i + 1, conts, pmap)
         ELSE FillGaps(st, i + 1, conts, pmap)

\* lines 193-214; result is [raised, list]
Remap(conts, pmap) ==
    LET placed == PlaceMapped([k \in 1..Len(conts) |-> None], 0, conts, pmap)
    IN  IF placed.raised # None THEN placed
        ELSE [raised |-> None,
              list |-> FillGaps([list |-> placed.list, fill_index |-> 0],
                                0, conts, pmap).list]

\* contingents read from the CSV file in the model
DrawChoices == { << <<"A", 1>> >>, << <<"B", 2>>, <<"A", 1>> >> }

\* the partial maps from ordinals to positions: at most MaxMapEntries
\* entries, keys up to one past the last ordinal, positions 0 .. n + 1
PositionMaps(n) ==
    UNION { [keys -> 0..(n + 1)] :
                keys \in { K \in SUBSET (1..(n + 1)) : Cardinality(K) <= MaxMapEntries } }

InitDraw ==
    /\ pc = "main_start"
    /\ contingents \in SeqsUpTo(DrawChoices, MaxDrawn)
    /\ positions_map \in PositionMaps(Len(contingents))
    /\ contingent_row_size = DEFAULT_ROW_SIZE
    /\ capacity = DEFAULT_CAPACITY
    /\ reordered_contingents = None /\ formation = None /\ raised = None
    /\ total_people = None /\ ascii = None
    /\ group_sizes = None /\ strict_min_capacity = None
    /\ fix_num_contingents = None /\ pre_allocated_contingents = None
    /\ remaining_group_sizes = None /\ all_contingents = None
    /\ g_index = None /\ group_count_now = None

\* main, lines 193-219: an exception of the remapping ends main
DrawMain ==
    /\ pc = "main_start"
    /\ LET r == Remap(contingents, positions_map)
       IN  /\ reordered_contingents' = r.list
           /\ IF r.raised # None
              THEN /\ raised' = r.raised
                   /\ formation' = None
              ELSE LET f == create_parade_formation(r.list, contingent_row_size, capacity)
                   IN  /\ raised' = f.raised
                       /\ formation' = f.text
    /\ pc' = "main_done"
    /\ UNCHANGED <<contingents, positions_map, contingent_row_size, capacity>>
    /\ UNCHANGED allocVars
    /\ UNCHANGED gridVars

NextDraw == DrawMain

SpecDraw == InitDraw /\ [][NextDraw]_vars

Ordinals == 1..Len(contingents)

\* a valid mapping: keys are ordinals, targets are positions, no target twice
ValidMap ==
    /\ DOMAIN positions_map \subseteq Ordinals
    /\ \A k \in DOMAIN positions_map : positions_map[k] \in Ordinals
    /\ \A k1, k2 \in DOMAIN positions_map :
          positions_map[k1] = positions_map[k2] => k1 = k2

\* p[j] is the ordinal of the contingent that belongs at position j
IsRemapOf(p) ==
    /\ \A j1, j2 \in Ordinals : p[j1] = p[j2] => j1 = j2
    /\ \A k \in DOMAIN positions_map : p[positions_map[k]] = k
    /\ \A j1, j2 \in Ordinals :
          (j1 < j2 /\ p[j1] \notin DOMAIN positions_map
                   /\ p[j2] \notin DOMAIN positions_map) => p[j1] < p[j2]

\* C8: with a valid mapping the reordered list is a permutation of the input
\* contingents, unchanged in content, in which every mapped contingent sits
\* at its position and the others fill the rest in their original order.
C8_ValidRemap ==
    (pc = "main_done" /\ ValidMap) =>
        /\ raised # "IndexError"
        /\ Len(reordered_contingents) = Len(contingents)
        /\ \E p \in [Ordinals -> Ordinals] :
              /\ IsRemapOf(p)
              /\ \A j \in Ordinals : reordered_contingents[j] = contingents[p[j]]

\* a valid mapping that moves something while leaving other contingents to
\* fill the gaps has been applied
C8_Witness ==
    /\ pc = "main_done" /\ ValidMap
    /\ Len(contingents) = 3
    /\ Cardinality(DOMAIN positions_map) = 1
    /\ \E k \in DOMAIN positions_map : positions_map[k] # k
    /\ reordered_contingents # contingents

\* the mapping sends two contingents to one position, or names an ordinal
\* that does not exist
InvalidMap ==
    \/ \E k1, k2 \in DOMAIN positions_map :
          k1 # k2 /\ positions_map[k1] = positions_map[k2]
    \/ \E k \in DOMAIN positions_map : k \notin Ordinals

\* C9: with an invalid mapping (two contingents on one position, or a key
\* that is no ordinal) the remapping reports an error instead of a reordered
\* list.  Any exception that ends main is counted as the report, also one
\* raised only when the list is drawn.
C9_InvalidMapRejected ==
    (pc = "main_done" /\ InvalidMap) => (raised # None /\ formation = None)

-----------------------------------------------------------------------------
(* solve_parade.py: allocate_contingents, 1) the pre-allocation (115-154) *)

\* ChunkLoop with "while group_count > capacity"
RECURSIVE ChunkLoopStrict(_, _, _)
ChunkLoopStrict(st, g, cap) ==
    IF st.group_count > cap
    THEN ChunkLoopStrict([pre |-> Append(st.pre, << <<g, cap>> >>),
                          group_count |-> st.group_count - cap], g, cap)
    ELSE st

\* lines 127-129: the while loop; st = [pre, group_count]
RECURSIVE ChunkLoop(_, _, _)
ChunkLoop(st, g, cap) ==
    IF st.group_count >= cap
    THEN ChunkLoop([pre |-> Append(st.pre, << <<g, cap>> >>),
                    group_count |-> st.group_count - cap], g, cap)
    ELSE st

\* Leftover without lines 132-134: the leftover is forgotten
LeftoverDropped(remaining, g, group_count) == remaining

\* lines 132-134: the leftover of an avoid_split group
Leftover(remaining, g, group_count) ==
    IF group_count > 0 THEN Append(remaining, <<g, group_count>>) ELSE remaining

\* lines 122-138: one group; st = [pre, remaining]
ChunkGroup(st, info, cap) ==
    LET group_count == info.size
    IN  IF info.avoid_split /\ group_count > 0
        THEN LET w == ChunkLoop([pre |-> st.pre, group_count |-> group_count],
                                info.name, cap)
             IN  [pre |-> w.pre,
                  remaining |-> Leftover(st.remaining, info.name, w.group_count)]
        ELSE [pre |-> st.pre,
              remaining |-> Append(st.remaining, <<info.name, group_count>>)]

\* lines 118-138: the for loop over group_sizes.items(), from item k on
RECURSIVE Chunker(_, _, _, _)
Chunker(st, k, gs, cap) ==
    IF k > Len(gs) THEN st
    ELSE Chunker(ChunkGroup(st, gs[k], cap), k + 1, gs, cap)

PreAllocate(gs, cap) == Chunker([pre |-> <<>>, remaining |-> <<>>], 1, gs, cap)

\* lines 141-144: the contingent count left to the solver
SolverFixNum(fix, pre) ==
    IF fix # NoFix THEN <<Max(0, fix[1] - Len(pre))>> ELSE NoFix

-----------------------------------------------------------------------------
(* 2)-4) the ILP (156-257).  rem is remaining_group_sizes; group i is      *)
(* rem[i], candidate contingents are 0 .. max_contingents - 1; an          *)
(* assignment x maps <<i, c>> to the people of group i in candidate c.     *)

GroupName(rem, i) == rem[i][1]
GroupLeft(rem, i) == rem[i][2]                            \* A[i], line 148
TotalLeft(rem) == SumSeq([i \in 1..Len(rem) |-> rem[i][2]])   \* line 149
MaxContingentsOf(rem, cap) == (TotalLeft(rem) \div cap) + 3   \* line 158

Candidates(mc) == 0..(mc - 1)

\* sum(x[(i, c)] for i in range(N))
RECURSIVE ColumnSumTo(_, _, _)
ColumnSumTo(x, c, n) == IF n = 0 THEN 0 ELSE x[<<n, c>>] + ColumnSumTo(x, c, n - 1)
ColumnSum(x, c, rem) == ColumnSumTo(x, c, Len(rem))

\* sum(x[(i, c)] for c in range(max_contingents))
RECURSIVE GroupSumTo(_, _, _)
GroupSumTo(x, i, mc) == IF mc = 0 THEN 0 ELSE x[<<i, mc - 1>>] + GroupSumTo(x, i, mc - 1)

RECURSIVE SumOver(_, _)
SumOver(f, S) ==
    IF S = {} THEN 0
    ELSE LET e == CHOOSE e \in S : TRUE IN f[e] + SumOver(f, S \ {e})

\* the group's entry in group_sizes (lines 233-234)
InfoOf(gs, g) == gs[CHOOSE k \in 1..Len(gs) : gs[k].name = g]

\* 4a) line 204
Capacity(x, z, rem, mc, cap) ==
    \A c \in Candidates(mc) : ColumnSum(x, c, rem) <= cap * z[c]

\* line 208
UsedIsNonEmpty(x, z, rem, mc) ==
    \A c \in Candidates(mc) : ColumnSum(x, c, rem) >= z[c]

\* 4b) lines 211-215
GroupUsage(x, rem, mc, use_all) ==
    \A i \in 1..Len(rem) :
        IF use_all THEN GroupSumTo(x, i, mc) = GroupLeft(rem, i)
                   ELSE GroupSumTo(x, i, mc) <= GroupLeft(rem, i)

\* 4c) line 220, for the row y[(i, .)] of one group; BIG_M = capacity
Linking(x, yrow, i, mc, cap) ==
    \A c \in Candidates(mc) : x[<<i, c>>] <= cap * yrow[c]

\* 4d) lines 223-224
FixedCount(z, mc, fix) ==
    fix # NoFix => SumOver(z, Candidates(mc)) = fix[1]

\* ExactlyOneContingent without the constraint of line 238
AnyNumberOfContingents(yrow, mc) == TRUE

\* 4e) line 238
ExactlyOneContingent(yrow, mc) == SumOver(yrow, Candidates(mc)) = 1

\* 4e) lines 252-253 for one (i, c), m being the value of m[(i, c)]
RowMultiple(sum_c, m, yic, cap, rows) ==
    /\ sum_c - rows * m <= cap * (1 - yic)
    /\ sum_c - rows * m >= (0 - cap) * (1 - yic)

\* 4e) lines 231-253 for group i: the constraints exist only for an
\* avoid_split group whose original size is below capacity; m[(i, c)] is an
\* IntVar(0, capacity) that occurs in these two constraints only
AvoidSplit(x, yrow, i, rem, mc, gs, cap, rows) ==
    LET info == InfoOf(gs, GroupName(rem, i))
    IN  (info.avoid_split /\ info.size < cap) =>
            /\ ExactlyOneContingent(yrow, mc)
            /\ \A c \in Candidates(mc) :
                  \E m \in 0..cap :
                      RowMultiple(ColumnSum(x, c, rem), m, yrow[c], cap, rows)

\* MinCapacity without the constraint of line 257
NoMinCapacity(x, z, rem, mc, smc) == TRUE

\* 4f) line 257
MinCapacity(x, z, rem, mc, smc) ==
    \A c \in Candidates(mc) : ColumnSum(x, c, rem) >= smc * z[c]

\* The value of z the constraints leave for an assignment x: line 204 forces
\* z[c] = 1 on a non-empty candidate, line 208 forces z[c] = 0 on an empty one.
UsedFlags(x, rem, mc) ==
    [c \in Candidates(mc) |-> IF ColumnSum(x, c, rem) > 0 THEN 1 ELSE 0]

\* The rows y[(i, .)] that can matter for group i: line 220 forces 1 where
\* x is positive; y appears elsewhere only in 4e, which allows one 1 in all,
\* so at most one further 1 (on a candidate where the group has nobody).
YRows(x, i, mc) ==
    LET least == [c \in Candidates(mc) |-> IF x[<<i, c>>] > 0 THEN 1 ELSE 0]
    IN  {least} \cup { [least EXCEPT ![c] = 1] : c \in Candidates(mc) }

\* x extends to a solution (x, y, z, m) of the whole constraint set
Feasible(x, rem, mc, gs, cap, smc, rows, fix, use_all) ==
    LET z == UsedFlags(x, rem, mc)
    IN  /\ Capacity(x, z, rem, mc, cap)
        /\ UsedIsNonEmpty(x, z, rem, mc)
        /\ GroupUsage(x, rem, mc, use_all)
        /\ FixedCount(z, mc, fix)
        /\ MinCapacity(x, z, rem, mc, smc)
        /\ \A i \in 1..Len(rem) :
              \E yrow \in YRows(x, i, mc) :
                  /\ Linking(x, yrow, i, mc, cap)
                  /\ AvoidSplit(x, yrow, i, rem, mc, gs, cap, rows)

\* The assignments searched.  The constraints do not distinguish one
\* candidate index from another and the extraction skips empty candidates,
\* so the used candidates are taken first, in every order; a column is
\* non-empty, within the variable bounds 0 .. A[i] and within capacity.
ColumnsWithin(left, cap) ==
    { col \in [1..Len(left) -> 0..cap] :
        /\ \A i \in 1..Len(left) : col[i] <= left[i]
        /\ SumSeq(col) >= 1
        /\ SumSeq(col) <= cap }

RECURSIVE Fillings(_, _, _, _)
Fillings(left, slots, cap, use_all) ==
    LET stop == IF use_all /\ SumSeq(left) > 0 THEN {} ELSE { <<>> }
        more == IF slots = 0 THEN {}
                ELSE UNION { { <<col>> \o rest :
                                 rest \in Fillings([i \in 1..Len(left) |-> left[i] - col[i]],
                                                   slots - 1, cap, use_all) } :
                             col \in ColumnsWithin(left, cap) }
    IN  stop \cup more

Assignments(rem, mc, cap, use_all) ==
    { [p \in (1..Len(rem)) \X Candidates(mc) |->
            IF p[2] < Len(cols) THEN cols[p[2] + 1][p[1]] ELSE 0] :
        cols \in Fillings([i \in 1..Len(rem) |-> GroupLeft(rem, i)], mc, cap, use_all) }

Solutions(rem, mc, gs, cap, smc, rows, fix, use_all) ==
    { x \in Assignments(rem, mc, cap, use_all) :
        Feasible(x, rem, mc, gs, cap, smc, rows, fix, use_all) }

-----------------------------------------------------------------------------
(* 7) the extraction (303-317) *)

\* lines 309-313: the dict of candidate c, groups with a positive value only
RECURSIVE ContDict(_, _, _, _)
ContDict(x, c, rem, i) ==
    IF i > Len(rem) THEN <<>>
    ELSE (IF x[<<i, c>>] > 0 THEN << <<GroupName(rem, i), x[<<i, c>>]>> >> ELSE <<>>)
            \o ContDict(x, c, rem, i + 1)

\* lines 304-314: candidates c, c + 1, ... in order, the empty ones skipped
RECURSIVE Extract(_, _, _, _)
Extract(x, c, rem, mc) ==
    IF c >= mc THEN <<>>
    ELSE (IF ColumnSum(x, c, rem) = 0 THEN <<>> ELSE <<ContDict(x, c, rem, 1)>>)
            \o Extract(x, c + 1, rem, mc)

-----------------------------------------------------------------------------
(* Specification of allocate_contingents as main calls it *)

USE_ALL == TRUE        \* solve_parade.py:354

GroupNames == <<"A", "B">>

GroupConfigs ==
    { gs \in [1..Len(GroupNames) ->
                [name : {"A", "B"}, size : 0..MaxSize, avoid_split : BOOLEAN]] :
        /\ \A k \in 1..Len(GroupNames) : gs[k].name = GroupNames[k]
        /\ SumSeq([k \in 1..Len(GroupNames) |-> gs[k].size]) <= MaxTotal }

Init ==
    /\ pc = "allocate_call"
    /\ group_sizes \in GroupConfigs
    /\ capacity \in 1..MaxCapacity
    /\ strict_min_capacity \in 0..capacity
    /\ contingent_row_size \in 1..MaxRowSize
    /\ fix_num_contingents \in {NoFix} \cup { <<k>> : k \in 0..MaxFix }
    /\ pre_allocated_contingents = None /\ remaining_group_sizes = None
    /\ g_index = None /\ group_count_now = None
    /\ all_contingents = None /\ raised = None
    /\ total_people = None /\ ascii = None
    /\ contingents = None /\ positions_map = None
    /\ reordered_contingents = None /\ formation = None

\* allocate_contingents, lines 115-326
Allocate ==
    /\ pc = "allocate_call"
    /\ LET chunked == PreAllocate(group_sizes, capacity)
           pre == chunked.pre
           rem == chunked.remaining
           fix == SolverFixNum(fix_num_contingents, pre)
           mc == MaxContingentsOf(rem, capacity)
           sols == Solutions(rem, mc, group_sizes, capacity, strict_min_capacity,
                             contingent_row_size, fix, USE_ALL)
       IN  /\ pre_allocated_contingents' = pre
           /\ remaining_group_sizes' = rem
           /\ IF TotalLeft(rem) = 0
              THEN \* lines 153-154
                   /\ all_contingents' = pre
                   /\ raised' = None
                   /\ pc' = "allocate_returned"
              ELSE \/ \* lines 294-322: OPTIMAL or FEASIBLE
                      \E x \in sols :
                        /\ all_contingents' = pre \o Extract(x, 0, rem, mc)
                        /\ raised' = None
                        /\ pc' = "allocate_returned"
                   \/ \* lines 295-296: infeasible, or nothing found within
                      \* the time limit of line 171
                      /\ all_contingents' = None
                      /\ raised' = "Exception"
                      /\ pc' = "allocate_raised"
    /\ UNCHANGED <<group_sizes, capacity, strict_min_capacity, contingent_row_size,
                   fix_num_contingents, g_index, group_count_now>>
    /\ UNCHANGED gridVars
    /\ UNCHANGED drawVars

Next == Allocate

Spec == Init /\ [][Next]_vars

-----------------------------------------------------------------------------
(* Properties of allocate_contingents *)

Returned == pc = "allocate_returned"
ChunkerRan == pc \in {"allocate_returned", "allocate_raised"}

\* cont.get(g, 0)
RECURSIVE CountIn(_, _)
CountIn(cont, g) ==
    IF cont = <<>> THEN 0
    ELSE (IF Head(cont)[1] = g THEN Head(cont)[2] ELSE 0) + CountIn(Tail(cont), g)

\* people of group g in all the contingents of the list
AssignedTo(g, conts) == SumSeq([j \in 1..Len(conts) |-> CountIn(conts[j], g)])

\* positions of the contingents that hold somebody of group g
ContingentsOf(g, conts) == { j \in 1..Len(conts) : CountIn(conts[j], g) > 0 }

\* positions of the contingents that came from the solver
SolverPositions == (Len(pre_allocated_contingents) + 1)..Len(all_contingents)

DeclaredTotal == SumSeq([k \in 1..Len(group_sizes) |-> group_sizes[k].size])

\* C1: in a returned allocation (use_all = True) the counts of every group,
\* summed over all contingents, pre-allocated and solver-made, equal the
\* group's declared size.
C1_Conservation ==
    Returned =>
        \A k \in 1..Len(group_sizes) :
            AssignedTo(group_sizes[k].name, all_contingents) = group_sizes[k].size

\* an allocation made of pre-allocated chunks and of solver contingents
C1_Witness ==
    /\ Returned
    /\ Len(pre_allocated_contingents) >= 2
    /\ Len(all_contingents) >= Len(pre_allocated_contingents) + 2

\* the early return: everything was pre-allocated
C1_WitnessEarlyReturn ==
    /\ Returned
    /\ Len(pre_allocated_contingents) >= 1
    /\ TotalLeft(remaining_group_sizes) = 0

\* C2: in a returned allocation every contingent made by the solver holds at
\* least strict_min_capacity and at most capacity people.
C2_SolverContingentBounds ==
    Returned =>
        \A j \in SolverPositions :
            /\ DictTotal(all_contingents[j]) >= strict_min_capacity
            /\ DictTotal(all_contingents[j]) <= capacity

\* solver contingents under a minimum that binds, one of them not full
C2_Witness ==
    /\ Returned
    /\ strict_min_capacity >= 2
    /\ Cardinality(SolverPositions) >= 2
    /\ \E j \in SolverPositions : DictTotal(all_contingents[j]) < capacity

\* what C3 says of one group
InOneRowMultiple(g) ==
    /\ Cardinality(ContingentsOf(g, all_contingents)) = 1
    /\ \A j \in ContingentsOf(g, all_contingents) :
          DictTotal(all_contingents[j]) % contingent_row_size = 0

\* C3 as stated: in a returned allocation every avoid_split group of size
\* below capacity is in exactly one contingent, whose total is a multiple of
\* contingent_row_size.
C3_AsStated ==
    Returned =>
        \A k \in 1..Len(group_sizes) :
            (group_sizes[k].avoid_split /\ group_sizes[k].size < capacity)
                => InOneRowMultiple(group_sizes[k].name)

\* C3 amended: the same for every avoid_split group of size above 0 and
\* below capacity (a group of size 0 is in no contingent).
C3_NonEmptyGroups ==
    Returned =>
        \A k \in 1..Len(group_sizes) :
            (group_sizes[k].avoid_split /\ group_sizes[k].size > 0
                /\ group_sizes[k].size < capacity)
                => InOneRowMultiple(group_sizes[k].name)

\* an avoid_split group below capacity shares its contingent with the other
\* group, rows of 2, while the other group is also elsewhere
C3_Witness ==
    /\ Returned
    /\ contingent_row_size = 2
    /\ \E k \in 1..Len(group_sizes) :
          /\ group_sizes[k].avoid_split
          /\ group_sizes[k].size > 0
          /\ group_sizes[k].size < capacity
          /\ \E j \in ContingentsOf(group_sizes[k].name, all_contingents) :
                Len(all_contingents[j]) = 2
    /\ Len(all_contingents) >= 2

\* the entries of group g in remaining_group_sizes
ResidualEntries(g) ==
    { i \in 1..Len(remaining_group_sizes) : remaining_group_sizes[i][1] = g }

\* C5: the chunker gives an avoid_split group of size s > 0 exactly
\* floor(s / capacity) pre-allocated contingents, each holding capacity
\* people of that group only, and a residual of s mod capacity exactly when
\* that is positive; any other group gets no pre-allocated contingent and
\* its whole size as residual.
C5_Chunking ==
    ChunkerRan =>
        \A k \in 1..Len(group_sizes) :
            LET g == group_sizes[k].name
                s == group_sizes[k].size
                chunks == ContingentsOf(g, pre_allocated_contingents)
            IN  IF group_sizes[k].avoid_split /\ s > 0
                THEN /\ Cardinality(chunks) = s \div capacity
                     /\ \A j \in chunks :
                           pre_allocated_contingents[j] = << <<g, capacity>> >>
                     /\ IF s % capacity > 0
                        THEN /\ Cardinality(ResidualEntries(g)) = 1
                             /\ \A i \in ResidualEntries(g) :
                                   remaining_group_sizes[i][2] = s % capacity
                        ELSE ResidualEntries(g) = {}
                ELSE /\ chunks = {}
                     /\ Cardinality(ResidualEntries(g)) = 1
                     /\ \A i \in ResidualEntries(g) :
                           remaining_group_sizes[i][2] = s

\* as in the example 185 / 90: two full chunks and a residual
C5_Witness ==
    /\ ChunkerRan
    /\ \E k \in 1..Len(group_sizes) :
          /\ group_sizes[k].avoid_split
          /\ group_sizes[k].size = 2 * capacity + 1
          /\ Cardinality(ContingentsOf(group_sizes[k].name,
                                       pre_allocated_contingents)) = 2
          /\ <<group_sizes[k].name, 1>> \in
                { remaining_group_sizes[i] : i \in 1..Len(remaining_group_sizes) }
    /\ \E k \in 1..Len(group_sizes) : ~group_sizes[k].avoid_split

\* C6: a call with a fixed count below the number of contingents needed to
\* seat everybody within capacity never returns an allocation.
C6_TooFewContingentsFails ==
    (fix_num_contingents # NoFix
        /\ fix_num_contingents[1] < Ceil(DeclaredTotal, capacity))
        => ~Returned

\* C7: a call with a fixed count K that returns, returns K contingents.
C7_FixedCountKept ==
    (Returned /\ fix_num_contingents # NoFix)
        => Len(all_contingents) = fix_num_contingents[1]

\* C12: in every returned allocation a group with avoid_split = true and
\* size s > 0 appears in at most ceil(s / capacity) contingents: its full
\* pre-allocated contingents plus at most one contingent for the remainder.
C12_FewestContingents ==
    Returned =>
        \A k \in 1..Len(group_sizes) :
            (group_sizes[k].avoid_split /\ group_sizes[k].size > 0) =>
                Cardinality(ContingentsOf(group_sizes[k].name, all_contingents))
                    <= Ceil(group_sizes[k].size, capacity)

\* the same for the groups the singleton constraint of 4e covers
C12_BelowCapacity ==
    Returned =>
        \A k \in 1..Len(group_sizes) :
            (group_sizes[k].avoid_split /\ group_sizes[k].size > 0
                /\ group_sizes[k].size < capacity) =>
                Cardinality(ContingentsOf(group_sizes[k].name, all_contingents))
                    <= Ceil(group_sizes[k].size, capacity)

\* the constraint set built for the residual groups has a solution when the
\* candidate contingents are 0 .. mc - 1
FeasibleWith(mc) ==
    Solutions(remaining_group_sizes, mc, group_sizes, capacity,
              strict_min_capacity, contingent_row_size,
              SolverFixNum(fix_num_contingents, pre_allocated_contingents),
              USE_ALL) # {}

\* A used contingent holds somebody (line 208), so no assignment uses more
\* contingents than there are residual people.
AnyNumberOfCandidates ==
    1..Max(TotalLeft(remaining_group_sizes),
           MaxContingentsOf(remaining_group_sizes, capacity))

\* the solver is reached: the chunker ran and left somebody to assign
ModelBuilt == ChunkerRan /\ TotalLeft(remaining_group_sizes) > 0

\* C13: whenever some assignment of the residual people to any number of
\* contingents satisfies all the constraints, one also exists within the
\* candidates 0 .. max_contingents - 1 of line 158.
C13_BoundSufficient ==
    ModelBuilt =>
        ((\E mc \in AnyNumberOfCandidates : FeasibleWith(mc))
            => FeasibleWith(MaxContingentsOf(remaining_group_sizes, capacity)))

-----------------------------------------------------------------------------
(* allocate_contingents step by step, lines 118-167: the chunker one loop  *)
(* iteration at a time, up to the creation of the solver, for capacities   *)
(* of either sign (nothing before line 118 looks at capacity)              *)

MaxNonPositive == 2          \* capacities from -MaxNonPositive up

\* one more chunk than any capacity >= 1 can produce from MaxTotal people
MaxChunks == MaxTotal + 1

InitSteps ==
    /\ pc = "for_groups"
    /\ group_sizes \in GroupConfigs
    /\ capacity \in (0 - MaxNonPositive)..MaxCapacity
    /\ strict_min_capacity = 0
    /\ contingent_row_size = 1
    /\ fix_num_contingents \in {NoFix} \cup { <<k>> : k \in 0..MaxFix }
    /\ pre_allocated_contingents = <<>> /\ remaining_group_sizes = <<>>
    /\ g_index = 1 /\ group_count_now = None
    /\ all_contingents = None /\ raised = None
    /\ total_people = None /\ ascii = None
    /\ contingents = None /\ positions_map = None
    /\ reordered_contingents = None /\ formation = None

\* lines 121-125 and 135-138: the next item of group_sizes
ForGroup ==
    /\ pc = "for_groups"
    /\ g_index <= Len(group_sizes)
    /\ LET info == group_sizes[g_index]
       IN  /\ group_count_now' = info.size
           /\ IF info.avoid_split /\ info.size > 0
              THEN /\ pc' = "while"
                   /\ UNCHANGED <<remaining_group_sizes, g_index>>
              ELSE /\ remaining_group_sizes' =
                        Append(remaining_group_sizes, <<info.name, info.size>>)
                   /\ g_index' = g_index + 1
                   /\ pc' = "for_groups"
    /\ UNCHANGED <<group_sizes, capacity, strict_min_capacity, contingent_row_size,
                   fix_num_contingents, pre_allocated_contingents,
                   all_contingents, raised>>
    /\ UNCHANGED gridVars
    /\ UNCHANGED drawVars

\* lines 127-129: one iteration of the while loop
WhileStep ==
    /\ pc = "while"
    /\ group_count_now >= capacity
    /\ Len(pre_allocated_contingents) < MaxChunks
    /\ pre_allocated_contingents' =
          Append(pre_allocated_contingents,
                 << <<group_sizes[g_index].name, capacity>> >>)
    /\ group_count_now' = group_count_now - capacity
    /\ UNCHANGED <<pc, group_sizes, capacity, strict_min_capacity,
                   contingent_row_size, fix_num_contingents,
                   remaining_group_sizes, g_index, all_contingents, raised>>
    /\ UNCHANGED gridVars
    /\ UNCHANGED drawVars

\* lines 127 and 132-134: the loop condition fails, the leftover is kept
WhileExit ==
    /\ pc = "while"
    /\ group_count_now < capacity
    /\ remaining_group_sizes' =
          Leftover(remaining_group_sizes, group_sizes[g_index].name, group_count_now)
    /\ g_index' = g_index + 1
    /\ pc' = "for_groups"
    /\ UNCHANGED <<group_sizes, capacity, strict_min_capacity, contingent_row_size,
                   fix_num_contingents, pre_allocated_contingents,
                   group_count_now, all_contingents, raised>>
    /\ UNCHANGED gridVars
    /\ UNCHANGED drawVars

\* lines 141-167 after the last item: the fixed count is reduced, then the
\* early return (154), the division of line 158, the solver of line 167
AfterLoop ==
    /\ pc = "for_groups"
    /\ g_index > Len(group_sizes)
    /\ fix_num_contingents' =
          SolverFixNum(fix_num_contingents, pre_allocated_contingents)
    /\ total_people' = TotalLeft(remaining_group_sizes)
    /\ IF TotalLeft(remaining_group_sizes) = 0
       THEN /\ all_contingents' = pre_allocated_contingents
            /\ pc' = "allocate_returned"
            /\ UNCHANGED raised
       ELSE IF capacity = 0
       THEN /\ raised' = "ZeroDivisionError"       \* line 158, re-raised at 326
            /\ pc' = "allocate_raised"
            /\ UNCHANGED all_contingents
       ELSE /\ pc' = "solver_created"               \* line 167
            /\ UNCHANGED <<all_contingents, raised>>
    /\ UNCHANGED <<group_sizes, capacity, strict_min_capacity, contingent_row_size,
                   pre_allocated_contingents, remaining_group_sizes,
                   g_index, group_count_now, ascii>>
    /\ UNCHANGED drawVars

NextSteps == ForGroup \/ WhileStep \/ WhileExit \/ AfterLoop

SpecSteps == InitSteps /\ [][NextSteps]_vars

\* the call has returned, raised, or reached the solver
StepsDone == pc \in {"allocate_returned", "allocate_raised", "solver_created"}

\* with a capacity >= 1 the steps compute what PreAllocate computes, and
\* the bound on the chunks never stops a loop
StepsAgree ==
    capacity >= 1 =>
        /\ StepsDone =>
              /\ pre_allocated_contingents = PreAllocate(group_sizes, capacity).pre
              /\ remaining_group_sizes = PreAllocate(group_sizes, capacity).remaining
        /\ StepsDone \/ ENABLED NextSteps

\* C14: called with capacity <= 0, allocate_contingents ends, for every
\* group configuration, by reporting an error before any solver is built:
\* it never reaches the solver, never returns an allocation, and never
\* stops anywhere but at its end (the while loop of line 127 is left).
C14_FailsFast ==
    capacity <= 0 =>
        /\ pc # "solver_created"
        /\ pc # "allocate_returned"
        /\ StepsDone \/ ENABLED NextSteps

\* What the loop does instead: entered with capacity <= 0, its condition
\* group_count >= capacity holds before and after every iteration, and
\* group_count never gets smaller.
C14_LoopNeverLeft ==
    (capacity <= 0 /\ pc = "while") =>
        /\ group_count_now >= capacity
        /\ group_count_now >= group_sizes[g_index].size
        /\ ~ENABLED WhileExit

=============================================================================
